---- MODULE Spec2Model ----
(***************************************************************************)
(* The screens of voice-server: the admin pages WhitelistPage,             *)
(* DictionaryPage, UsersPage (with and without role change), DashboardPage *)
(* and AuthCallbackPage, the Layout shell, and the native                  *)
(* DictionarySettingsView and GeneralSettingsView.                         *)
(* Each list screen keeps a list fetched from a                            *)
(* remote collaborator and re-fetches it after every successful mutation.  *)
(* An async handler is a task whose position (pc) is the await it is       *)
(* suspended at; the code between two awaits runs as one step.             *)
(***************************************************************************)
EXTENDS Integers, Sequences, FiniteSets, TLC

\* ------------------------------------------------------------------ bounds
\* Handler invocations that issue a request (the mount load included).
MaxOps == 3

\* ------------------------------------------------------------- constants
Null == "null"
\* A null entry (deleteTarget, roleChangeTarget, currentUser).
NoEntry == [id |-> 0]
NoResp == [ver |-> -1, data |-> <<>>]
NoToken == "nil"
\* A null status (DashboardPage).
NoStatus == [status |-> "null"]

Screens == {"whitelist", "dictionary", "users", "usersRoles", "native",
            "dashboard", "authCallback", "settings", "layout"}
WebScreens == {"whitelist", "dictionary", "users", "usersRoles"}
AddScreens == {"whitelist", "dictionary"}
UserScreens == {"users", "usersRoles"}

\* What searchParams.get() returns: null, the empty string, or a value.
ParamValues == {Null, "", "abc"}

\* The paths of Layout's navItems.
NavPaths == {"/", "/users", "/whitelist", "/dictionary"}

\* The route each screen is mounted at.
PathOf(scr) ==
  CASE scr = "authCallback" -> "/auth/callback"
    [] scr \in {"dashboard", "layout"} -> "/"
    [] scr \in {"native", "settings"} -> "none"
    [] scr = "whitelist" -> "/whitelist"
    [] scr = "dictionary" -> "/dictionary"
    [] OTHER -> "/users"

\* Text typed into the input fields, as sequences of characters.
\* A character outside ASCII is written as the name of its code point.
Inputs == { <<"U+3000", " ">>, <<"U+3000", "a", " ", "b", "\r">> }

\* What a rejected promise carries: an Error with a message, or another value.
Rejections == { [isError |-> TRUE, message |-> "timeout"],
                [isError |-> FALSE, message |-> ""] }

VARIABLES
  screen,           \* which screen this instance is
  items,            \* entries / users held by the screen
  currentUser,      \* UsersPage with role change: result of getMe()
  loading,
  error,
  newGithubId,      \* WhitelistPage input
  pattern,          \* DictionaryPage inputs
  replacement,
  newPattern,       \* DictionarySettingsView inputs
  newReplacement,
  adding,
  deleting,
  changingRole,
  deleteTarget,
  roleChangeTarget,
  effectRan,        \* the mount effect (useEffect / onAppear) has run
  tasks,            \* async handlers suspended at an await
  nextId,           \* next handler id
  nextLoad,         \* next load() issue number
  db,               \* the collaborator's collection
  ver,              \* number of mutations the collaborator has applied
  nextEntryId,      \* next id the collaborator assigns
  newest,           \* highest issue number among the loads stored so far
  status,           \* DashboardPage: result of getStatus()
  entryCount,       \* DictionaryService.entryCount
  isLoading,        \* DictionaryService.isLoading
  tokenParam,       \* AuthCallbackPage: searchParams.get('token')
  errorParam,       \* AuthCallbackPage: searchParams.get('error')
  storedToken,      \* what setToken() was last given
  location,         \* the router's current path
  user,             \* Layout: the user prop
  connectionStatus,     \* GeneralSettingsView
  isTestingConnection,
  serverURLValid,   \* URL(string: settings.serverURL) is not nil
  last              \* what the last step did

uiVars == <<items, currentUser, loading, error, newGithubId, pattern,
            replacement, newPattern, newReplacement, adding, deleting,
            changingRole, deleteTarget, roleChangeTarget>>
srvVars == <<db, ver, nextEntryId>>
authVars == <<tokenParam, errorParam, storedToken, location, user>>
settingsVars == <<connectionStatus, isTestingConnection, serverURLValid>>
auxVars == <<status, entryCount, isLoading, authVars, settingsVars>>
vars == <<auxVars, screen, items, currentUser, loading, error, newGithubId, pattern,
          replacement, newPattern, newReplacement, adding, deleting,
          changingRole, deleteTarget, roleChangeTarget, effectRan, tasks,
          nextId, nextLoad, db, ver, nextEntryId, newest, last>>

\* ---------------------------------------------------------- pure helpers
\* The characters of Unicode category Zs (space separators).
SpaceSeparators ==
  {" ", "U+00A0", "U+1680", "U+2000", "U+2001", "U+2002", "U+2003", "U+2004",
   "U+2005", "U+2006", "U+2007", "U+2008", "U+2009", "U+200A", "U+202F",
   "U+205F", "U+3000"}
\* What String.prototype.trim removes: WhiteSpace (tab, vertical tab, form
\* feed, byte order mark, Zs) and LineTerminator (LF, CR, U+2028, U+2029).
JsWhitespace ==
  SpaceSeparators \cup {"\t", "U+000B", "\f", "U+FEFF"}
                  \cup {"\n", "\r", "U+2028", "U+2029"}
\* CharacterSet.whitespaces: Zs and the tab, no line break.
SwiftWhitespaces == SpaceSeparators \cup {"\t"}

RECURSIVE DropLeading(_, _)
DropLeading(s, ws) ==
  IF s = <<>> THEN <<>>
  ELSE IF Head(s) \in ws THEN DropLeading(Tail(s), ws)
  ELSE s

RECURSIVE DropTrailing(_, _)
DropTrailing(s, ws) ==
  IF s = <<>> THEN <<>>
  ELSE IF s[Len(s)] \in ws THEN DropTrailing(SubSeq(s, 1, Len(s) - 1), ws)
  ELSE s

trimStart(s) == DropLeading(s, JsWhitespace)
\* String.prototype.trim
trim(s) == DropTrailing(DropLeading(s, JsWhitespace), JsWhitespace)

\* String.trimmingCharacters(in: .whitespaces)
trimmingCharacters(s) ==
  DropTrailing(DropLeading(s, SwiftWhitespaces), SwiftWhitespaces)

errorTextGeneric(rej, fallback) == fallback
\* `err instanceof Error ? err.message : fallback`
errorText(rej, fallback) == IF rej.isError THEN rej.message ELSE fallback

FetchFallback(scr) ==
  CASE scr = "whitelist" -> "Failed to fetch whitelist"
    [] scr = "dictionary" -> "Failed to fetch dictionary"
    [] scr = "users" -> "Failed to fetch users"
    [] scr = "usersRoles" -> "Failed to fetch data"
    [] scr = "dashboard" -> "Failed to fetch status"
    [] OTHER -> "Failed"

MutateFallback(scr, kind) ==
  CASE scr = "whitelist" /\ kind = "add" -> "Failed to add to whitelist"
    [] scr = "whitelist" /\ kind = "delete" -> "Failed to remove from whitelist"
    [] scr = "dictionary" /\ kind = "add" -> "Failed to add entry"
    [] scr = "dictionary" /\ kind = "delete" -> "Failed to delete entry"
    [] scr \in UserScreens /\ kind = "delete" -> "Failed to delete user"
    [] scr = "usersRoles" /\ kind = "role" -> "Failed to change role"
    [] OTHER -> "Failed"

authTokenStored == "token"
\* The private authToken of DictionarySettingsView.
authToken == NoToken
isAuthenticated == authToken # NoToken

\* ------------------------------------------------------ the collaborator
InitialDbs(scr) ==
  CASE scr = "whitelist" ->
         { <<[id |-> 1, github_id |-> <<"a">>]>> }
    [] scr = "dictionary" ->
         { <<[id |-> 1, pattern |-> <<"a">>, replacement |-> <<"a">>]>> }
    [] scr \in UserScreens ->
         { <<[id |-> 1, is_admin |-> TRUE], [id |-> 2, is_admin |-> FALSE],
             [id |-> 3, is_admin |-> TRUE]>> }
    [] OTHER -> { <<>> }

HasId(seq, i) == \E k \in 1..Len(seq) : seq[k].id = i

Without(seq, i) == SelectSeq(seq, LAMBDA e : e.id # i)

WithRole(seq, i, adm) ==
  [k \in 1..Len(seq) |->
     IF seq[k].id = i THEN [seq[k] EXCEPT !.is_admin = adm] ELSE seq[k]]

NewEntry(scr, arg, i) ==
  IF scr = "whitelist" THEN [id |-> i, github_id |-> arg[1]]
  ELSE [id |-> i, pattern |-> arg[1], replacement |-> arg[2]]

\* The collection after the collaborator has applied the mutation of task t.
Applied(scr, t, d, i) ==
  CASE t.kind = "add" -> Append(d, NewEntry(scr, t.arg, i))
    [] t.kind = "delete" -> Without(d, t.arg[1])
    [] t.kind = "role" -> WithRole(d, t.arg[1], t.arg[2])
    [] OTHER -> d

CanApply(t, d) ==
  \/ t.kind = "add"
  \/ t.kind \in {"delete", "role"} /\ HasId(d, t.arg[1])

\* getMe(): the record of the logged-in administrator (the user with id 1).
MeOf(d) ==
  IF HasId(d, 1) THEN (CHOOSE e \in {d[k] : k \in 1..Len(d)} : e.id = 1)
  ELSE NoEntry

\* ------------------------------------------------------------ bookkeeping
Event(ev, kind, id, loads, seq, v, mutVer, data, rej) ==
  [ev |-> ev, kind |-> kind, id |-> id, loads |-> loads, seq |-> seq,
   ver |-> v, mutVer |-> mutVer, data |-> data, rej |-> rej]

NoRej == [isError |-> FALSE, message |-> ""]

Plain(ev) == Event(ev, "none", 0, 0, 0, 0, 0, <<>>, NoRej)

OfTask(ev, t, data, rej) ==
  Event(ev, t.kind, t.id, t.loads, t.seq, t.resp.ver, t.mutVer, data, rej)

NewTask(kind, pc, arg, seq) ==
  [id |-> nextId, kind |-> kind, pc |-> pc, arg |-> arg, loads |-> 0,
   seq |-> seq, mutVer |-> 0, resp |-> NoResp, me |-> NoEntry]

Replace(t, u) == (tasks \ {t}) \cup {u}

\* ------------------------------------------------------------------ Init
Init ==
  /\ screen \in Screens
  /\ items = <<>>
  /\ currentUser = NoEntry
  /\ loading = (screen \in WebScreens \cup {"dashboard"})
  /\ error = Null
  /\ newGithubId = <<>>
  /\ pattern = <<>>
  /\ replacement = <<>>
  /\ newPattern = <<>>
  /\ newReplacement = <<>>
  /\ adding = FALSE
  /\ deleting = FALSE
  /\ changingRole = FALSE
  /\ deleteTarget = NoEntry
  /\ roleChangeTarget = NoEntry
  /\ effectRan = FALSE
  /\ tasks = {}
  /\ nextId = 1
  /\ nextLoad = 1
  /\ db \in InitialDbs(screen)
  /\ ver = 0
  /\ nextEntryId = Len(db) + 1
  /\ newest = 0
  /\ status = NoStatus
  /\ entryCount = 0
  /\ isLoading = FALSE
  /\ tokenParam \in (IF screen = "authCallback" THEN ParamValues ELSE {Null})
  /\ errorParam \in (IF screen = "authCallback" THEN ParamValues ELSE {Null})
  /\ storedToken \in (IF screen = "layout" THEN {Null, "abc"} ELSE {Null})
  /\ location = PathOf(screen)
  /\ user \in (IF screen = "layout" THEN {NoEntry, [id |-> 1]} ELSE {NoEntry})
  /\ connectionStatus = [kind |-> "unknown"]
  /\ isTestingConnection = FALSE
  /\ serverURLValid = TRUE
  /\ last = Plain("init")

\* The page body (form, table, dialogs) is rendered only when loading is
\* false: `if (loading) return <spinner/>`.
RenderedAlways == screen \in WebScreens
Rendered == screen \in WebScreens /\ ~loading

\* An input or click event is handled only once the promise continuations
\* that are ready have run: no handler stands between the return of its
\* load() and its finally block.
EventTurn == \A t \in tasks : t.pc # "finally"

\* The table body: one row per held item.
DataRows == IF Rendered THEN items ELSE <<>>

EmptyRowShownWhileLoading ==
  IF screen = "native"
  THEN isAuthenticated /\ entryCount = 0
  ELSE screen \in WebScreens /\ Len(items) = 0
\* `{entries.length === 0 && <TableRow>...empty...</TableRow>}` inside the
\* page body; in the panel, emptyStateView in the content branch.
EmptyRowShown ==
  IF screen = "native"
  THEN isAuthenticated /\ ~(isLoading /\ entryCount = 0) /\ entryCount = 0
  ELSE Rendered /\ Len(items) = 0

\* ------------------------------------------------- load(): first segment
\* fetchWhitelist / fetchDictionary / fetchUsers / fetchData up to the await:
\* setLoading(true) and the list() request.
StartLoad(t) ==
  /\ loading' = TRUE
  /\ nextLoad' = nextLoad + 1
  /\ tasks' = Replace(t, [t EXCEPT !.pc = "load", !.loads = t.loads + 1,
                                   !.seq = nextLoad, !.mutVer = t.resp.ver,
                                   !.resp = NoResp, !.me = NoEntry])

\* useEffect(() => { fetch...() }, [])
Mount ==
  /\ screen \in WebScreens
  /\ ~effectRan
  /\ nextId <= MaxOps
  /\ effectRan' = TRUE
  /\ loading' = TRUE
  /\ nextLoad' = nextLoad + 1
  /\ nextId' = nextId + 1
  /\ tasks' = tasks \cup
       {[NewTask("mount", "load", <<>>, nextLoad) EXCEPT !.loads = 1]}
  /\ last' = Plain("mount")
  /\ UNCHANGED <<auxVars, screen, items, currentUser, error, newGithubId, pattern,
                 replacement, newPattern, newReplacement, adding, deleting,
                 changingRole, deleteTarget, roleChangeTarget, srvVars,
                 newest>>

\* ------------------------------------------------------------- UI events
\* onChange of the GitHub ID input.
SetNewGithubId(s) ==
  /\ screen = "whitelist" /\ Rendered /\ EventTurn
  /\ newGithubId' = s
  /\ last' = Plain("ui")
  /\ UNCHANGED <<auxVars, screen, items, currentUser, loading, error, pattern,
                 replacement, newPattern, newReplacement, adding, deleting,
                 changingRole, deleteTarget, roleChangeTarget, effectRan,
                 tasks, nextId, nextLoad, srvVars, newest>>

SetPattern(s) ==
  /\ screen = "dictionary" /\ Rendered /\ EventTurn
  /\ pattern' = s
  /\ last' = Plain("ui")
  /\ UNCHANGED <<auxVars, screen, items, currentUser, loading, error, newGithubId,
                 replacement, newPattern, newReplacement, adding, deleting,
                 changingRole, deleteTarget, roleChangeTarget, effectRan,
                 tasks, nextId, nextLoad, srvVars, newest>>

SetReplacement(s) ==
  /\ screen = "dictionary" /\ Rendered /\ EventTurn
  /\ replacement' = s
  /\ last' = Plain("ui")
  /\ UNCHANGED <<auxVars, screen, items, currentUser, loading, error, newGithubId,
                 pattern, newPattern, newReplacement, adding, deleting,
                 changingRole, deleteTarget, roleChangeTarget, effectRan,
                 tasks, nextId, nextLoad, srvVars, newest>>

\* The row's delete button; on the users pages it is disabled for admins.
SetDeleteTarget(e) ==
  /\ Rendered /\ EventTurn
  /\ screen \in UserScreens => ~e.is_admin
  /\ deleteTarget' = e
  /\ last' = Plain("ui")
  /\ UNCHANGED <<auxVars, screen, items, currentUser, loading, error, newGithubId,
                 pattern, replacement, newPattern, newReplacement, adding,
                 deleting, changingRole, roleChangeTarget, effectRan, tasks,
                 nextId, nextLoad, srvVars, newest>>

\* Cancel button / onOpenChange of the delete dialog.
CancelDelete ==
  /\ Rendered /\ EventTurn
  /\ deleteTarget # NoEntry
  /\ deleteTarget' = NoEntry
  /\ last' = Plain("ui")
  /\ UNCHANGED <<auxVars, screen, items, currentUser, loading, error, newGithubId,
                 pattern, replacement, newPattern, newReplacement, adding,
                 deleting, changingRole, roleChangeTarget, effectRan, tasks,
                 nextId, nextLoad, srvVars, newest>>

isCurrentUserNever(u) == FALSE
\* isCurrentUser(user): currentUser?.id === user.id
isCurrentUser(u) == currentUser # NoEntry /\ currentUser.id = u.id

\* The row's role button; disabled for the logged-in user.
SetRoleChangeTarget(e) ==
  /\ screen = "usersRoles" /\ Rendered /\ EventTurn
  /\ ~isCurrentUser(e)
  /\ roleChangeTarget' = e
  /\ last' = Plain("ui")
  /\ UNCHANGED <<auxVars, screen, items, currentUser, loading, error, newGithubId,
                 pattern, replacement, newPattern, newReplacement, adding,
                 deleting, changingRole, deleteTarget, effectRan, tasks,
                 nextId, nextLoad, srvVars, newest>>

CancelRoleChange ==
  /\ screen = "usersRoles" /\ Rendered /\ EventTurn
  /\ roleChangeTarget # NoEntry
  /\ roleChangeTarget' = NoEntry
  /\ last' = Plain("ui")
  /\ UNCHANGED <<auxVars, screen, items, currentUser, loading, error, newGithubId,
                 pattern, replacement, newPattern, newReplacement, adding,
                 deleting, changingRole, deleteTarget, effectRan, tasks,
                 nextId, nextLoad, srvVars, newest>>

\* ------------------------------------------- mutation handlers: first segment
\* `disabled={deleting}`, `disabled={changingRole}` of the confirm buttons.
DeleteDisabledNever == FALSE
DeleteDisabled == deleting
RoleChangeDisabled == changingRole

\* What handleAdd tests and sends on each page.
AddFields == IF screen = "whitelist" THEN <<newGithubId>>
             ELSE <<pattern, replacement>>

AddIsBlankUntrimmed(fields) == \E k \in 1..Len(fields) : fields[k] = <<>>
AddIsBlank(fields) == \E k \in 1..Len(fields) : trim(fields[k]) = <<>>

AddDisabledNever == FALSE
\* `disabled={adding || !newGithubId.trim()}` and
\* `disabled={adding || !pattern.trim() || !replacement.trim()}` of the
\* submit button; a form whose submit button is disabled is not submitted.
AddDisabled == adding \/ AddIsBlank(AddFields)

AddPayload(fields) == [k \in 1..Len(fields) |-> trim(fields[k])]

\* handleAdd of WhitelistPage and DictionaryPage, up to its first await.  The
\* submit reaches the handler while the form is rendered and its button is
\* enabled; the handler's own guard on blank input comes first.
HandleAdd ==
  /\ screen \in AddScreens /\ Rendered /\ EventTurn
  /\ ~AddDisabled
  /\ IF AddIsBlank(AddFields)
     THEN /\ last' = Plain("addReturn")
          /\ UNCHANGED <<adding, tasks, nextId>>
     ELSE /\ nextId <= MaxOps
          /\ adding' = TRUE
          /\ tasks' = tasks \cup
               {NewTask("add", "mutate", AddPayload(AddFields), 0)}
          /\ nextId' = nextId + 1
          /\ last' = Plain("addIssued")
  /\ UNCHANGED <<auxVars, screen, items, currentUser, loading, error, newGithubId,
                 pattern, replacement, newPattern, newReplacement, deleting,
                 changingRole, deleteTarget, roleChangeTarget, effectRan,
                 nextLoad, srvVars, newest>>

\* handleDelete up to its first await; the confirm button is disabled while
\* deleting.
HandleDelete ==
  /\ Rendered /\ EventTurn
  /\ deleteTarget # NoEntry
  /\ ~DeleteDisabled
  /\ nextId <= MaxOps
  /\ deleting' = TRUE
  /\ tasks' = tasks \cup {NewTask("delete", "mutate", <<deleteTarget.id>>, 0)}
  /\ nextId' = nextId + 1
  /\ last' = Plain("deleteIssued")
  /\ UNCHANGED <<auxVars, screen, items, currentUser, loading, error, newGithubId,
                 pattern, replacement, newPattern, newReplacement, adding,
                 changingRole, deleteTarget, roleChangeTarget, effectRan,
                 nextLoad, srvVars, newest>>

\* handleRoleChange up to its first await; the confirm button is disabled
\* while changingRole.
HandleRoleChange ==
  /\ screen = "usersRoles" /\ Rendered /\ EventTurn
  /\ roleChangeTarget # NoEntry
  /\ ~RoleChangeDisabled
  /\ nextId <= MaxOps
  /\ changingRole' = TRUE
  /\ tasks' = tasks \cup
       {NewTask("role", "mutate",
                <<roleChangeTarget.id, ~roleChangeTarget.is_admin>>, 0)}
  /\ nextId' = nextId + 1
  /\ last' = Plain("roleIssued")
  /\ UNCHANGED <<auxVars, screen, items, currentUser, loading, error, newGithubId,
                 pattern, replacement, newPattern, newReplacement, adding,
                 deleting, deleteTarget, roleChangeTarget, effectRan,
                 nextLoad, srvVars, newest>>

\* ------------------------------------------------------ the collaborator
\* create / delete / update is carried out and its response is on the way.
ServerMutate(t) ==
  /\ t.pc = "mutate" /\ t.resp = NoResp
  /\ CanApply(t, db)
  /\ db' = Applied(screen, t, db, nextEntryId)
  /\ ver' = ver + 1
  /\ nextEntryId' = IF t.kind = "add" THEN nextEntryId + 1 ELSE nextEntryId
  /\ tasks' = Replace(t, [t EXCEPT !.resp = [NoResp EXCEPT !.ver = ver + 1]])
  /\ last' = Plain("server")
  /\ UNCHANGED <<auxVars, screen, uiVars, effectRan, nextId, nextLoad, newest>>

\* list() is answered from the collection as it is now.
ServerList(t) ==
  /\ t.pc = "load" /\ t.kind # "status" /\ t.resp = NoResp
  /\ tasks' = Replace(t, [t EXCEPT !.resp = [ver |-> ver, data |-> db]])
  /\ last' = Plain("server")
  /\ UNCHANGED <<auxVars, screen, uiVars, effectRan, nextId, nextLoad, srvVars,
                 newest>>

\* me(), the second call of fetchData's Promise.all, is answered.
ServerMe(t) ==
  /\ screen = "usersRoles"
  /\ t.pc = "load" /\ t.me = NoEntry
  /\ tasks' = Replace(t, [t EXCEPT !.me = MeOf(db)])
  /\ last' = Plain("server")
  /\ UNCHANGED <<auxVars, screen, uiVars, effectRan, nextId, nextLoad, srvVars,
                 newest>>

\* ------------------------------------------ handlers: after the await
MutationNotAwaited(t) == TRUE
\* The awaited mutation call has come back.
MutationSettled(t) == t.resp # NoResp

ItemsSpliced(cur, t) == Applied(screen, t, cur, 0)
ItemsOptimistic(cur, t) == IF t.kind = "delete" THEN Without(cur, t.arg[1])
                           ELSE cur
ItemsCleared(cur, t) == <<>>
\* What a handler does to the list around its mutation call: nothing.
ItemsAfterMutate(cur, t) == cur

Reverse(seq) == [k \in 1..Len(seq) |-> seq[Len(seq) + 1 - k]]
LoadedItemsReversed(cur, t) == Reverse(t.resp.data)
LoadedItemsNewestOnly(cur, t) == IF t.seq < newest THEN cur ELSE t.resp.data
\* setEntries(data) / setUsers(usersData)
LoadedItems(cur, t) == t.resp.data

LoadErrorTextRethrown(scr, t, rej) ==
  errorText(rej, IF t.kind \in {"add", "delete", "role"}
                 THEN MutateFallback(scr, t.kind) ELSE FetchFallback(scr))
\* The catch inside load(): the text stored when list() rejects.
LoadErrorText(scr, t, rej) == errorText(rej, FetchFallback(scr))

\* `await getWhitelist()` / `await Promise.all([getUsers(), getMe()])` has
\* every answer it waits for.
LoadSettled(t) ==
  t.resp # NoResp /\ (screen = "usersRoles" => t.me # NoEntry)

ItemsPartial(cur, t) == IF t.resp # NoResp THEN t.resp.data ELSE cur
\* What load() does to the list when the awaited call(s) reject: nothing.
ItemsAfterLoadFail(cur, t) == cur

\* load() has returned: the effect that called it is over, a handler that
\* awaits it goes on to its finally block in a later turn of the promise
\* queue.
TasksAfterLoad(t) ==
  IF t.kind \in {"add", "delete", "role"}
  THEN Replace(t, [t EXCEPT !.pc = "finally"])
  ELSE tasks \ {t}

TasksAfterLoadFailRetried(t) ==
  Replace(t, [t EXCEPT !.resp = NoResp, !.me = NoEntry])
\* load() whose list() rejected returns like any other: nothing is called
\* again.
TasksAfterLoadFail(t) == TasksAfterLoad(t)

LoadingOffOnSuccessOnly(ok) == ~ok
\* `finally { setLoading(false) }`
LoadingAfterLoad(ok) == FALSE

FlagKept(flag, kind, t) == flag
\* `finally { setAdding(false) }` and its siblings, for the handler of task t.
FlagAfter(flag, kind, t) == IF t.kind = kind THEN FALSE ELSE flag

ErrorClearedOnMutate(cur) == Null
\* The handlers' try blocks between the awaited mutation and the fetch: no
\* setError.
ErrorAfterMutate(cur) == cur

TargetKept(cur, kind, t) == cur
\* `setDeleteTarget(null)` / `setRoleChangeTarget(null)` after the awaited
\* mutation, in the handler of task t.
TargetAfterMutate(cur, kind, t) == IF t.kind = kind THEN NoEntry ELSE cur

\* handleAdd / handleDelete / handleRoleChange between the mutation's await
\* and the await inside the load it calls: reset the input, setLoading(true),
\* issue list().
MutateResolve(t) ==
  /\ screen \in WebScreens
  /\ t.pc = "mutate"
  /\ MutationSettled(t)
  /\ newGithubId' = IF t.kind = "add" /\ screen = "whitelist"
                    THEN <<>> ELSE newGithubId
  /\ pattern' = IF t.kind = "add" /\ screen = "dictionary"
                THEN <<>> ELSE pattern
  /\ replacement' = IF t.kind = "add" /\ screen = "dictionary"
                    THEN <<>> ELSE replacement
  /\ deleteTarget' = TargetAfterMutate(deleteTarget, "delete", t)
  /\ roleChangeTarget' = TargetAfterMutate(roleChangeTarget, "role", t)
  /\ items' = ItemsAfterMutate(items, t)
  /\ error' = ErrorAfterMutate(error)
  /\ StartLoad(t)
  /\ last' = Event("mutateOk", t.kind, t.id, t.loads + 1, nextLoad, -1,
                   t.resp.ver, <<>>, NoRej)
  /\ UNCHANGED <<auxVars, screen, currentUser, newPattern, newReplacement,
                 adding, deleting, changingRole, effectRan, nextId, srvVars,
                 newest>>

\* The mutation call rejected: catch { setError(...) } finally { flag off }.
MutateReject(t, rej) ==
  /\ screen \in WebScreens
  /\ t.pc = "mutate"
  /\ items' = ItemsAfterMutate(items, t)
  /\ error' = errorText(rej, MutateFallback(screen, t.kind))
  /\ adding' = FlagAfter(adding, "add", t)
  /\ deleting' = FlagAfter(deleting, "delete", t)
  /\ changingRole' = FlagAfter(changingRole, "role", t)
  /\ tasks' = tasks \ {t}
  /\ last' = OfTask("mutateFail", t, <<>>, rej)
  /\ UNCHANGED <<auxVars, screen, currentUser, loading, newGithubId, pattern,
                 replacement, newPattern, newReplacement, deleteTarget,
                 roleChangeTarget, effectRan, nextId, nextLoad, srvVars,
                 newest>>

\* list() resolved: the rest of load().
LoadResolve(t) ==
  /\ screen \in WebScreens
  /\ t.pc = "load" /\ t.kind # "status"
  /\ LoadSettled(t)
  /\ items' = LoadedItems(items, t)
  /\ currentUser' = IF screen = "usersRoles" THEN t.me ELSE currentUser
  /\ error' = Null
  /\ loading' = LoadingAfterLoad(TRUE)
  /\ tasks' = TasksAfterLoad(t)
  /\ newest' = IF t.seq > newest THEN t.seq ELSE newest
  /\ last' = OfTask("loadOk", t, t.resp.data, NoRej)
  /\ UNCHANGED <<auxVars, screen, newGithubId, pattern, replacement, newPattern,
                 newReplacement, adding, deleting, changingRole, deleteTarget,
                 roleChangeTarget, effectRan, nextId, nextLoad, srvVars>>

\* list() rejected: catch { setError(...) } finally { setLoading(false) } of
\* load(), which returns normally.
LoadReject(t, rej) ==
  /\ screen \in WebScreens
  /\ t.pc = "load" /\ t.kind # "status"
  /\ items' = ItemsAfterLoadFail(items, t)
  /\ error' = LoadErrorText(screen, t, rej)
  /\ loading' = LoadingAfterLoad(FALSE)
  /\ tasks' = TasksAfterLoadFail(t)
  /\ last' = OfTask("loadFail", t, t.resp.data, rej)
  /\ UNCHANGED <<auxVars, screen, currentUser, newGithubId, pattern,
                 replacement, newPattern, newReplacement, adding, deleting,
                 changingRole, deleteTarget, roleChangeTarget, effectRan,
                 nextId, nextLoad, srvVars, newest>>

\* The handler's `await fetchWhitelist()` (fetchDictionary, fetchUsers,
\* fetchData) has returned: finally { setAdding(false) } and its siblings.
HandlerFinish(t) ==
  /\ t.pc = "finally"
  /\ adding' = FlagAfter(adding, "add", t)
  /\ deleting' = FlagAfter(deleting, "delete", t)
  /\ changingRole' = FlagAfter(changingRole, "role", t)
  /\ tasks' = tasks \ {t}
  /\ last' = OfTask("finish", t, <<>>, NoRej)
  /\ UNCHANGED <<auxVars, screen, items, currentUser, loading, error,
                 newGithubId, pattern, replacement, newPattern,
                 newReplacement, deleteTarget, roleChangeTarget, effectRan,
                 nextId, nextLoad, srvVars, newest>>

\* ------------------------------------------------ DictionarySettingsView
\* loadEntries(), run by onAppear: returns at the token guard.
LoadEntries ==
  /\ screen = "native"
  /\ ~effectRan
  /\ effectRan' = TRUE
  /\ IF authToken = NoToken
     THEN UNCHANGED <<tasks, nextId, nextLoad>>
     ELSE /\ nextId <= MaxOps
          /\ tasks' = tasks \cup
               {[NewTask("mount", "load", <<>>, nextLoad) EXCEPT !.loads = 1]}
          /\ nextId' = nextId + 1
          /\ nextLoad' = nextLoad + 1
  /\ last' = Plain("mount")
  /\ UNCHANGED <<auxVars, screen, uiVars, srvVars, newest>>

\* The content branch and the add form of DictionarySettingsView.body.
NotAuthenticatedViewShown == screen = "native" /\ ~isAuthenticated
AddFormShown == screen = "native" /\ isAuthenticated

\* The cap of the personal dictionary, and DictionaryService.canAddMore.
maxEntries == 100
canAddMore == entryCount < maxEntries

\* DictionarySettingsView.canAdd
canAdd ==
  /\ newPattern # <<>>
  /\ newReplacement # <<>>
  /\ canAddMore
  /\ ~isLoading

\* The add button can be tapped: it is part of addEntryForm, which body
\* shows only `if isAuthenticated`, and it is `.disabled(!canAdd)`.
AddButtonEnabled == AddFormShown /\ canAdd

NativeFields == <<newPattern, newReplacement>>

NativeIsBlank(fields) ==
  \E k \in 1..Len(fields) : trimmingCharacters(fields[k]) = <<>>

\* addEntry(), which only a tap on the add button runs: the token guard,
\* then the trimmed-empty guard, then the Task that calls service.addEntry.
AddEntry ==
  /\ AddButtonEnabled
  /\ IF authToken = NoToken \/ NativeIsBlank(NativeFields)
     THEN /\ last' = Plain("addReturn")
          /\ UNCHANGED <<tasks, nextId>>
     ELSE /\ nextId <= MaxOps
          /\ tasks' = tasks \cup
               {NewTask("add", "mutate",
                        [k \in 1..2 |-> trimmingCharacters(NativeFields[k])],
                        0)}
          /\ nextId' = nextId + 1
          /\ last' = Plain("addIssued")
  /\ UNCHANGED <<auxVars, screen, uiVars, effectRan, nextLoad, srvVars, newest>>

\* An entry deleteEntry() can be handed.
PanelEntries == { [id |-> 1] }

\* The delete alert can be on screen: it is opened from a row of
\* entryListView, which body shows only in the branches after
\* `if !isAuthenticated`.
DeleteAlertOpenable == screen = "native" /\ isAuthenticated

\* deleteEntry(entry), which only the alert's Delete button runs: the token
\* guard, then the Task that calls service.deleteEntry.
DeleteEntry(e) ==
  /\ DeleteAlertOpenable
  /\ IF authToken = NoToken
     THEN /\ last' = Plain("deleteReturn")
          /\ UNCHANGED <<tasks, nextId>>
     ELSE /\ nextId <= MaxOps
          /\ tasks' = tasks \cup {NewTask("delete", "mutate", <<e.id>>, 0)}
          /\ nextId' = nextId + 1
          /\ last' = Plain("deleteIssued")
  /\ UNCHANGED <<auxVars, screen, uiVars, effectRan, nextLoad, srvVars, newest>>

\* The Task of loadEntries, addEntry or deleteEntry after its service call:
\* a successful add empties both fields, nothing else is touched.
PanelTaskDone(t, success) ==
  /\ screen = "native"
  /\ newPattern' = IF t.kind = "add" /\ success THEN <<>> ELSE newPattern
  /\ newReplacement' = IF t.kind = "add" /\ success THEN <<>>
                       ELSE newReplacement
  /\ tasks' = tasks \ {t}
  /\ last' = OfTask("panelDone", t, <<>>, NoRej)
  /\ UNCHANGED <<auxVars, screen, items, currentUser, loading, error,
                 newGithubId, pattern, replacement, adding, deleting,
                 changingRole, deleteTarget, roleChangeTarget, effectRan,
                 nextId, nextLoad, srvVars, newest>>

\* ------------------------------------------------------ AuthCallbackPage
TruthyIfPresent(s) == s # Null
\* JavaScript truthiness of `string | null`: null and '' are falsy.
Truthy(s) == s # Null /\ s # ""

\* The mount effect of AuthCallbackPage.
AuthCallbackEffect ==
  /\ screen = "authCallback"
  /\ ~effectRan
  /\ effectRan' = TRUE
  /\ IF Truthy(errorParam)
     THEN /\ error' = errorParam
          /\ last' = Plain("authError")
          /\ UNCHANGED <<storedToken, location>>
     ELSE IF Truthy(tokenParam)
     THEN /\ storedToken' = tokenParam
          /\ location' = "/"
          /\ last' = Plain("authStored")
          /\ UNCHANGED error
     ELSE /\ error' = "No token received"
          /\ last' = Plain("authError")
          /\ UNCHANGED <<storedToken, location>>
  /\ UNCHANGED <<status, entryCount, isLoading, tokenParam, errorParam, user,
                 settingsVars, screen, items, currentUser, loading,
                 newGithubId, pattern, replacement, newPattern, newReplacement,
                 adding, deleting, changingRole, deleteTarget,
                 roleChangeTarget, tasks, nextId, nextLoad, srvVars, newest>>

\* What the other steps of the admin shell leave alone.
ShellFrame ==
  UNCHANGED <<status, entryCount, isLoading, tokenParam, errorParam, user,
              settingsVars, screen, uiVars, effectRan, tasks, nextId,
              nextLoad, srvVars, newest>>

\* The link of AuthCallbackPage's error view, `<a href="/login">`.
BackToLogin ==
  /\ screen = "authCallback"
  /\ Truthy(error)
  /\ location = "/auth/callback"
  /\ location' = "/login"
  /\ last' = Plain("navigate")
  /\ UNCHANGED storedToken
  /\ ShellFrame

\* ----------------------------------------------------------------- Layout
\* handleLogout of Layout; its button is rendered only `{user && ...}`.
HandleLogout ==
  /\ screen = "layout"
  /\ user # NoEntry
  /\ storedToken' = Null
  /\ location' = "/login"
  /\ last' = Plain("logout")
  /\ ShellFrame

\* A click on the sidebar's `<Link to={item.path}>`.
FollowLink(path) ==
  /\ screen = "layout"
  /\ location' = path
  /\ last' = Plain("navigate")
  /\ UNCHANGED storedToken
  /\ ShellFrame

\* --------------------------------------------------- GeneralSettingsView
\* How the request of a connection test can end: status 200, another
\* response, or a thrown error.
TestOutcomes == {"ok", "serverError", "thrown"}

StatusAfterTest(outcome) ==
  CASE outcome = "ok" -> [kind |-> "connected"]
    [] outcome = "serverError" -> [kind |-> "failed", message |-> "Server error"]
    [] OTHER -> [kind |-> "failed", message |-> "localizedDescription"]

\* Editing the Server URL field.
SetServerURL(valid) ==
  /\ screen = "settings"
  /\ serverURLValid' = valid
  /\ last' = Plain("ui")
  /\ UNCHANGED <<status, entryCount, isLoading, authVars, connectionStatus,
                 isTestingConnection, screen, uiVars, effectRan, tasks,
                 nextId, nextLoad, srvVars, newest>>

\* The Test Connection button, `.disabled(isTestingConnection ||
\* !settings.isServerURLValid)`, and testConnection() up to its Task; parses
\* is whether URL(string:) returned a URL.
TestConnection(parses) ==
  /\ screen = "settings"
  /\ ~isTestingConnection /\ serverURLValid
  /\ IF ~parses
     THEN /\ connectionStatus' = [kind |-> "failed", message |-> "Invalid URL"]
          /\ last' = Plain("testInvalid")
          /\ UNCHANGED <<isTestingConnection, tasks, nextId>>
     ELSE /\ nextId <= MaxOps
          /\ isTestingConnection' = TRUE
          /\ connectionStatus' = [kind |-> "testing"]
          /\ tasks' = tasks \cup {NewTask("test", "test", <<>>, 0)}
          /\ nextId' = nextId + 1
          /\ last' = Plain("testIssued")
  /\ UNCHANGED <<status, entryCount, isLoading, authVars, serverURLValid,
                 screen, uiVars, effectRan, nextLoad, srvVars, newest>>

\* The Task of testConnection() after its await.
TestComplete(t, outcome) ==
  /\ t.pc = "test"
  /\ connectionStatus' = StatusAfterTest(outcome)
  /\ isTestingConnection' = FALSE
  /\ tasks' = tasks \ {t}
  /\ last' = OfTask("testDone", t, <<>>, NoRej)
  /\ UNCHANGED <<status, entryCount, isLoading, authVars, serverURLValid,
                 screen, uiVars, effectRan, nextId, nextLoad, srvVars, newest>>

\* The Reset to Defaults button.
ResetToDefaults ==
  /\ screen = "settings"
  /\ serverURLValid' = TRUE
  /\ connectionStatus' = [kind |-> "unknown"]
  /\ last' = Plain("reset")
  /\ UNCHANGED <<status, entryCount, isLoading, authVars,
                 isTestingConnection, screen, uiVars, effectRan, tasks,
                 nextId, nextLoad, srvVars, newest>>

\* --------------------------------------------------------- DashboardPage
\* What getStatus() can answer.
StatusValues ==
  { [status |-> "ok", whisper_server |-> "connected",
     database |-> "connected"],
    [status |-> "error", whisper_server |-> "disconnected",
     database |-> "connected"] }

\* useEffect(() => { fetchStatus() }, []) up to the await of getStatus().
MountDashboard ==
  /\ screen = "dashboard"
  /\ ~effectRan
  /\ nextId <= MaxOps
  /\ effectRan' = TRUE
  /\ nextId' = nextId + 1
  /\ tasks' = tasks \cup {NewTask("status", "load", <<>>, 0)}
  /\ last' = Plain("mount")
  /\ UNCHANGED <<auxVars, screen, uiVars, nextLoad, srvVars, newest>>

\* getStatus() is answered.
ServerStatus(t, s) ==
  /\ t.pc = "load" /\ t.kind = "status" /\ t.resp = NoResp
  /\ tasks' = Replace(t, [t EXCEPT !.resp =
                            [ver |-> ver, data |-> <<s>>]])
  /\ last' = Plain("server")
  /\ UNCHANGED <<auxVars, screen, uiVars, effectRan, nextId, nextLoad,
                 srvVars, newest>>

FetchedStatusDropped(t) == NoStatus
\* `const data = await getStatus(); setStatus(data)`
FetchedStatus(t) == t.resp.data[1]

\* fetchStatus after the await: setStatus(data); finally setLoading(false).
FetchStatusResolve(t) ==
  /\ t.pc = "load" /\ t.kind = "status"
  /\ t.resp # NoResp
  /\ status' = FetchedStatus(t)
  /\ loading' = LoadingAfterLoad(TRUE)
  /\ tasks' = tasks \ {t}
  /\ last' = OfTask("statusOk", t, t.resp.data, NoRej)
  /\ UNCHANGED <<entryCount, isLoading, authVars, settingsVars, screen,
                 items, currentUser, error,
                 newGithubId, pattern, replacement, newPattern,
                 newReplacement, adding, deleting, changingRole,
                 deleteTarget, roleChangeTarget, effectRan, nextId, nextLoad,
                 srvVars, newest>>

\* fetchStatus: catch { setError(...) } finally { setLoading(false) }.
FetchStatusReject(t, rej) ==
  /\ t.pc = "load" /\ t.kind = "status"
  /\ error' = LoadErrorText(screen, t, rej)
  /\ loading' = LoadingAfterLoad(FALSE)
  /\ tasks' = tasks \ {t}
  /\ last' = OfTask("statusFail", t, <<>>, rej)
  /\ UNCHANGED <<auxVars, screen, items, currentUser, newGithubId, pattern,
                 replacement, newPattern, newReplacement, adding, deleting,
                 changingRole, deleteTarget, roleChangeTarget, effectRan,
                 nextId, nextLoad, srvVars, newest>>

\* ------------------------------------------------------------------ Next
Next ==
  \/ Mount
  \/ \E s \in Inputs : SetNewGithubId(s)
  \/ \E s \in Inputs : SetPattern(s)
  \/ \E s \in Inputs : SetReplacement(s)
  \/ \E k \in 1..Len(items) : SetDeleteTarget(items[k])
  \/ CancelDelete
  \/ \E k \in 1..Len(items) : SetRoleChangeTarget(items[k])
  \/ CancelRoleChange
  \/ HandleAdd
  \/ HandleDelete
  \/ HandleRoleChange
  \/ \E t \in tasks : ServerMutate(t)
  \/ \E t \in tasks : ServerList(t)
  \/ \E t \in tasks : ServerMe(t)
  \/ \E t \in tasks : MutateResolve(t)
  \/ \E t \in tasks, rej \in Rejections : MutateReject(t, rej)
  \/ \E t \in tasks : LoadResolve(t)
  \/ \E t \in tasks, rej \in Rejections : LoadReject(t, rej)
  \/ \E t \in tasks : HandlerFinish(t)
  \/ LoadEntries
  \/ AuthCallbackEffect
  \/ BackToLogin
  \/ HandleLogout
  \/ \E path \in NavPaths : FollowLink(path)
  \/ \E valid \in BOOLEAN : SetServerURL(valid)
  \/ \E parses \in BOOLEAN : TestConnection(parses)
  \/ \E t \in tasks, outcome \in TestOutcomes : TestComplete(t, outcome)
  \/ ResetToDefaults
  \/ MountDashboard
  \/ \E t \in tasks, s \in StatusValues : ServerStatus(t, s)
  \/ \E t \in tasks : FetchStatusResolve(t)
  \/ \E t \in tasks, rej \in Rejections : FetchStatusReject(t, rej)

Spec == Init /\ [][Next]_vars

\* ------------------------------------------------------------- fairness
\* The call a load() awaits eventually resolves or rejects: some pending
\* load() runs on past its await.
LoadCompletes ==
  \E t \in tasks :
    LoadResolve(t) \/ \E rej \in Rejections : LoadReject(t, rej)

FairSpec == Spec /\ WF_vars(LoadCompletes)

\* ================================================================ claims
LoadsInFlight == {t \in tasks : t.pc = "load"}
MutationsInFlight == {t \in tasks : t.pc = "mutate"}
MutationKinds == {"add", "delete", "role"}
\* The handlers suspended at a remote call.
CallsInFlight == {t \in tasks : t.pc # "finally"}
FallbackTexts == {FetchFallback(scr) : scr \in Screens} \cup
                 {MutateFallback(scr, k) : scr \in Screens, k \in MutationKinds}
AllWhitespace(s) == \A k \in 1..Len(s) : s[k] \in JsWhitespace
AllSwiftWhitespace(s) == \A k \in 1..Len(s) : s[k] \in SwiftWhitespaces

\* C1: when a load() whose list() call succeeded completes, items is exactly
\* the sequence the collaborator returned, in the same order, and error is
\* null.
C1_LoadStoresResponse ==
  last.ev = "loadOk" => items = last.data /\ error = Null

C1_Witness ==
  /\ last.ev = "loadOk"
  /\ Len(items) >= 2
  /\ items[1] # items[2]

\* C2: a handler whose mutation call succeeded issues exactly one load()
\* afterwards and does not touch items itself; items is replaced by what
\* that load fetched.
C2_MutateThenOneLoad ==
  [][ /\ last'.ev = "mutateOk" =>
           /\ items' = items
           /\ Cardinality(LoadsInFlight') = Cardinality(LoadsInFlight) + 1
           /\ \E u \in LoadsInFlight' : u.id = last'.id /\ u.loads = 1
      /\ last'.ev \in {"loadOk", "loadFail"} /\ last'.kind \in MutationKinds =>
           /\ last'.loads = 1
           /\ Cardinality(LoadsInFlight') = Cardinality(LoadsInFlight) - 1
           /\ last'.ev = "loadOk" => items' = last'.data
    ]_vars

C2_Witness ==
  /\ last.ev = "loadOk"
  /\ last.kind = "delete"
  /\ last.loads = 1
  /\ ~HasId(items, 1)

\* C3: when the mutation call of a handler fails, items is unchanged, error
\* is non-null when the handler finishes and the handler issues no load().
C3_MutateFailure ==
  [][ last'.ev = "mutateFail" =>
        /\ items' = items
        /\ error' # Null
        /\ last'.loads = 0
        /\ LoadsInFlight' = LoadsInFlight
        /\ nextLoad' = nextLoad
        /\ \A u \in tasks' : u.id # last'.id
    ]_vars

C3_Witness ==
  /\ last.ev = "mutateFail"
  /\ items # <<>>
  /\ error # Null
  /\ tasks = {}

\* C4: when the list() call of a load() rejects, error is the rejection's
\* message (a generic fallback text when it is not an Error), loading is
\* false and the load leaves items as it was.
C4_LoadFailure ==
  [][ last'.ev = "loadFail" =>
        /\ last'.rej.isError => error' = last'.rej.message
        /\ ~last'.rej.isError => error' \in FallbackTexts
        /\ loading' = FALSE
        /\ items' = items
    ]_vars

C4_Witness ==
  /\ last.ev = "loadFail"
  /\ error = "timeout"
  /\ ~loading
  /\ items # <<>>

\* A field of the screen's add form is empty after trimming.
BlankField ==
  \/ screen = "whitelist" /\ AllWhitespace(newGithubId)
  \/ screen = "dictionary"
       /\ (AllWhitespace(pattern) \/ AllWhitespace(replacement))
  \/ screen = "native"
       /\ (AllSwiftWhitespace(newPattern) \/ AllSwiftWhitespace(newReplacement))

\* C5: while the identifier, pattern or replacement is empty after trimming
\* no add request is issued: the trigger of the add is disabled, no step
\* starts a create call, and a handler that returns at its guard changes
\* nothing.
C5_BlankAddIsLocal ==
  [][ BlankField =>
        /\ last'.ev # "addIssued"
        /\ {t.id : t \in {u \in tasks' : u.kind = "add"}}
             \subseteq {t.id : t \in tasks}
        /\ screen \in AddScreens => AddDisabled
        /\ screen = "native" => ~AddButtonEnabled
        /\ last'.ev = "addReturn" =>
             UNCHANGED <<uiVars, srvVars, tasks, nextId, nextLoad>>
    ]_vars

\* The dictionary form holds a pattern of white space only next to a filled
\* replacement: the submit is disabled and nothing has been sent.
C5_Witness ==
  /\ screen = "dictionary" /\ Rendered
  /\ last.ev = "ui"
  /\ pattern = <<"U+3000", " ">>
  /\ replacement = <<"U+3000", "a", " ", "b", "\r">>
  /\ ~adding /\ AddDisabled
  /\ \A t \in tasks : t.kind # "add"

\* C6 as stated: loading is true only while a list() fetch is in flight.
C6_LoadingOnlyInFlight == loading => LoadsInFlight # {}

\* C6 as amended: loading is true only while a list() fetch is in flight or
\* before the mount effect has issued the first load.
C6_LoadingInFlightOrUnmounted ==
  loading => (LoadsInFlight # {} \/ ~effectRan)

C6_Witness ==
  /\ loading
  /\ effectRan
  /\ Cardinality(LoadsInFlight) = 2

\* C7: items is the initial empty sequence or exactly what a successful
\* list() call returned: it changes only when a load stores its response.
C7_ItemsOnlyFromList ==
  [][ items' # items => last'.ev = "loadOk" /\ items' = last'.data ]_vars

C7_Witness ==
  /\ last.ev = "mutateOk"
  /\ last.kind = "add"
  /\ items # <<>>
  /\ Len(db) > Len(items)

\* C8: the load() that follows a mutation starts after the mutation's call
\* has completed, so the response it stores was computed after the
\* collaborator applied the mutation.
C8_ReloadSeesMutation ==
  /\ \A t \in LoadsInFlight :
       t.kind \in MutationKinds =>
         /\ t.mutVer >= 1
         /\ t.mutVer <= ver
         /\ t.resp # NoResp => t.resp.ver >= t.mutVer
  /\ last.ev = "loadOk" /\ last.kind \in MutationKinds =>
       /\ last.mutVer >= 1
       /\ last.ver >= last.mutVer
       /\ items = last.data

C8_Witness ==
  /\ last.ev = "loadOk"
  /\ last.kind = "add"
  /\ last.ver >= last.mutVer
  /\ \E k \in 1..Len(items) : items[k].id = 2

\* C9: overlapping loads are not sequenced: the response that resolves last
\* is stored even when a load issued later has already stored its own.
C9_LastResponseWins ==
  last.ev = "loadOk" /\ last.seq < newest => items = last.data

C9_Witness ==
  /\ last.ev = "loadOk"
  /\ last.seq < newest
  /\ CallsInFlight = {}
  /\ items # db

\* C10 as stated: at most one mutation request is in flight at any time.
C10_AtMostOneMutation == Cardinality(MutationsInFlight) <= 1

\* C10 as amended: at most one handler of each kind (add, delete, role
\* change) is running at any time; handlers of different kinds overlap.
C10_AtMostOnePerKind ==
  \A k \in MutationKinds : Cardinality({t \in tasks : t.kind = k}) <= 1

C10_Witness ==
  /\ Cardinality(MutationsInFlight) = 2
  /\ adding
  /\ deleting

\* C11: while deleting is true no second delete request is issued from the
\* screen (the confirm button is disabled by the flag), so at most one
\* handleDelete is between its trigger and its end, and at most one delete
\* call is in flight.
C11_NoSecondDelete ==
  [][ /\ deleting => last'.ev # "deleteIssued"
      /\ Cardinality({t \in tasks' : t.kind = "delete"}) <= 1 ]_vars

\* A delete call is in flight while the dialog with its target is on screen.
C11_Witness ==
  /\ deleting
  /\ Rendered
  /\ deleteTarget # NoEntry
  /\ \E t \in MutationsInFlight : t.kind = "delete"

\* C12: every failure of a remote call is caught with the failure stored as
\* text in error (the Error's message, or the fallback text of the catch that
\* caught it); a failed mutation and a failed mount load end their handler
\* there, its pending flag off; the failure of the reload after a successful
\* mutation is caught by load(), so it gets load()'s fallback text, never the
\* mutation's, and the handler goes on to its finally block, which only ends
\* it and drops its flag.
C12_FailuresCaught ==
  last.ev \in {"mutateFail", "loadFail", "statusFail"} =>
    /\ error # Null
    /\ error \in {r.message : r \in {x \in Rejections : x.isError}}
                 \cup FallbackTexts
    /\ last.rej.isError => error = last.rej.message
    /\ ~last.rej.isError =>
         error = IF last.ev = "mutateFail"
                 THEN MutateFallback(screen, last.kind)
                 ELSE FetchFallback(screen)
    /\ IF last.ev = "loadFail" /\ last.kind \in MutationKinds
       THEN \E t \in tasks : t.id = last.id /\ t.pc = "finally"
       ELSE /\ \A t \in tasks : t.id # last.id
            /\ last.kind = "add" => ~adding
            /\ last.kind = "delete" => ~deleting
            /\ last.kind = "role" => ~changingRole

\* The reload after a successful mutation rejected with a non-Error value.
C12_Witness ==
  /\ last.ev = "loadFail"
  /\ last.kind \in MutationKinds
  /\ ~last.rej.isError
  /\ error = FetchFallback(screen)

\* C13: on the Users screen with roles, users and currentUser change only
\* together, in the step that completes a batch whose two calls both
\* succeeded, and both come from that batch; when the batch fails neither
\* changes, whatever part of it had been answered, and error is set.
C13_BatchAllOrNothing ==
  [][ screen = "usersRoles" =>
        /\ (items' # items \/ currentUser' # currentUser) =>
             /\ last'.ev = "loadOk"
             /\ \E t \in tasks :
                  /\ t.id = last'.id /\ t.pc = "load"
                  /\ t.resp # NoResp /\ t.me # NoEntry
                  /\ items' = t.resp.data
                  /\ currentUser' = t.me
        /\ last'.ev = "loadOk" => currentUser' # NoEntry
        /\ last'.ev = "loadFail" =>
             /\ items' = items
             /\ currentUser' = currentUser
             /\ error' # Null ]_vars

\* getUsers() had answered with a list other than the one held, the batch
\* failed all the same, and that list was not stored.
C13_Witness ==
  /\ screen = "usersRoles"
  /\ last.ev = "loadFail"
  /\ last.ver >= 0
  /\ last.data # items
  /\ currentUser = NoEntry

\* C14: provided list() eventually resolves or rejects, whenever loading is
\* true with load() calls awaiting their list(), a state follows in which
\* every one of them has completed, by success or by failure, and loading is
\* false.
C14_LoadClearsLoading ==
  (loading /\ \E t \in LoadsInFlight : t.kind # "status")
    ~> /\ last.ev \in {"loadOk", "loadFail"}
       /\ ~loading
       /\ ~\E t \in LoadsInFlight : t.kind # "status"

\* A load has just failed and left loading false.
C14_Witness ==
  /\ last.ev = "loadFail"
  /\ ~loading
  /\ LoadsInFlight = {}

\* C15: list() is called exactly once by the mount effect and exactly once
\* after each successful mutation, and by no other step; a failed load and a
\* failed mutation end their handler without any further remote call, so
\* afterwards only a user-triggered operation calls the collaborator again.
C15_NoAutomaticRetry ==
  [][ /\ IF last'.ev = "mutateOk" \/ (last'.ev = "mount" /\ screen \in WebScreens)
         THEN nextLoad' = nextLoad + 1
         ELSE nextLoad' = nextLoad
      /\ last'.ev = "mount" => ~effectRan /\ effectRan'
      /\ last'.ev \in {"loadFail", "mutateFail"} =>
           /\ \E t \in CallsInFlight :
                t.id = last'.id /\ CallsInFlight' = CallsInFlight \ {t}
           /\ nextId' = nextId
      /\ last'.ev = "finish" =>
           /\ \E t \in tasks : t.id = last'.id /\ tasks' = tasks \ {t}
           /\ CallsInFlight' = CallsInFlight
           /\ nextId' = nextId
      /\ {t.id : t \in tasks'} \ {t.id : t \in tasks} # {} =>
           last'.ev \in {"mount", "addIssued", "deleteIssued", "roleIssued",
                         "testIssued"}
      /\ last'.ev = "server" =>
           {[id |-> t.id, pc |-> t.pc] : t \in tasks'}
             = {[id |-> t.id, pc |-> t.pc] : t \in tasks} ]_vars

\* The only load of a mounted page has failed and nothing is in flight.
C15_Witness ==
  /\ screen \in WebScreens
  /\ effectRan
  /\ last.ev = "loadFail"
  /\ last.kind = "mount"
  /\ tasks = {}
  /\ nextLoad = 2

\* C16 as stated: during the reload that follows a successful mutation
\* loading is true while the previously loaded items are still held and shown.
C16_StaleItemsShownDuringReload ==
  (\E t \in LoadsInFlight : t.kind \in MutationKinds) => loading /\ Rendered

\* C16: a successful mutation starts its reload with loading set to true and
\* the items held unchanged but hidden behind the spinner, so nothing of the
\* page can be operated while loading is true; loading goes back to false
\* only when some load() completes, and the reload ends either with the
\* items the collaborator returned and no error, or with error set and the
\* items retained.
C16_ReloadHoldsItemsHidden ==
  [][ /\ last'.ev = "mutateOk" =>
           loading' /\ ~Rendered' /\ items' = items
      /\ loading =>
           last'.ev \notin {"ui", "addReturn", "addIssued", "deleteIssued",
                            "roleIssued"}
      /\ (loading /\ ~loading') =>
           last'.ev \in {"loadOk", "loadFail", "statusOk", "statusFail"}
      /\ (last'.ev = "loadOk" /\ last'.kind \in MutationKinds) =>
           items' = last'.data /\ error' = Null
      /\ (last'.ev = "loadFail" /\ last'.kind \in MutationKinds) =>
           items' = items /\ error' # Null ]_vars

\* A mutation has just succeeded on a page that holds loaded items.
C16_Witness ==
  /\ last.ev = "mutateOk"
  /\ loading
  /\ items # <<>>
  /\ ~Rendered

\* r is s with its surrounding whitespace removed and nothing else changed.
IsTrimOf(r, s) ==
  \E i \in 1..(Len(s) + 1) : \E j \in 0..Len(s) :
    /\ r = SubSeq(s, i, j)
    /\ \A k \in 1..(i - 1) : s[k] \in JsWhitespace
    /\ \A k \in (j + 1)..Len(s) : s[k] \in JsWhitespace
    /\ r # <<>> => r[1] \notin JsWhitespace /\ r[Len(r)] \notin JsWhitespace

\* C17: a submit of the add form whose fields are all non-empty after
\* trimming issues exactly one create call, carrying exactly the trimmed
\* fields; a submit stops without a call only when a field is blank; and a
\* successful create is followed by exactly one load() of that handler.
C17_AddSendsTrimmedOnce ==
  [][ /\ (last'.ev = "addIssued" /\ screen \in AddScreens) =>
           /\ \A k \in 1..Len(AddFields) : ~AllWhitespace(AddFields[k])
           /\ \E t \in tasks' :
                /\ t \notin tasks /\ tasks' = tasks \cup {t}
                /\ t.kind = "add" /\ t.pc = "mutate"
                /\ Len(t.arg) = Len(AddFields)
                /\ \A k \in 1..Len(AddFields) :
                     IsTrimOf(t.arg[k], AddFields[k]) /\ t.arg[k] # <<>>
      /\ (last'.ev = "addReturn" /\ screen \in AddScreens) =>
           /\ \E k \in 1..Len(AddFields) : AllWhitespace(AddFields[k])
           /\ tasks' = tasks
      /\ (last'.ev = "mutateOk" /\ last'.kind = "add") =>
           /\ last'.loads = 1
           /\ nextLoad' = nextLoad + 1
           /\ Cardinality({t \in tasks' : t.id = last'.id /\ t.pc = "load"}) = 1
           /\ Cardinality(tasks') = Cardinality(tasks)
      /\ (last'.ev \in {"loadOk", "loadFail"} /\ last'.kind = "add") =>
           /\ last'.loads = 1
           /\ \A t \in CallsInFlight' : t.id # last'.id
           /\ nextLoad' = nextLoad
      /\ (last'.ev = "finish" /\ last'.kind = "add") =>
           /\ last'.loads = 1
           /\ \A t \in tasks' : t.id # last'.id
           /\ nextLoad' = nextLoad ]_vars

\* The dictionary form was submitted with padded fields and the create call
\* carries them without the padding.
C17_Witness ==
  /\ screen = "dictionary"
  /\ last.ev = "addIssued"
  /\ pattern = <<"U+3000", "a", " ", "b", "\r">>
  /\ replacement = <<"U+3000", "a", " ", "b", "\r">>
  /\ \E t \in MutationsInFlight :
       t.kind = "add" /\ t.arg = << <<"a", " ", "b">>, <<"a", " ", "b">> >>

\* C18: when a load completes with the empty sequence the page shows its
\* empty-state row and no data row; on the admin list pages the empty-state
\* row is on screen exactly when loading is false and items is empty.
C18_EmptyState ==
  /\ (last.ev = "loadOk" /\ last.data = <<>>) =>
       EmptyRowShown /\ Len(DataRows) = 0
  /\ screen \in WebScreens =>
       /\ EmptyRowShown <=> (~loading /\ items = <<>>)
       /\ EmptyRowShown => Len(DataRows) = 0
       /\ ~loading => DataRows = items

\* The only entry was deleted and the reload returned the empty list.
C18_Witness ==
  /\ last.ev = "loadOk"
  /\ last.kind = "delete"
  /\ last.data = <<>>
  /\ EmptyRowShown

\* C19: the pending flag of a mutation is true exactly while a handler of
\* that mutation is running: from its trigger, through the remote call and
\* through the reload after a success, until the handler finishes by success
\* or by failure.
C19_FlagWhileHandlerRuns ==
  /\ adding <=> \E t \in tasks : t.kind = "add"
  /\ deleting <=> \E t \in tasks : t.kind = "delete"
  /\ changingRole <=> \E t \in tasks : t.kind = "role"
  /\ last.ev \in {"loadOk", "loadFail"} /\ last.kind \in MutationKinds =>
       \E t \in tasks : t.id = last.id /\ t.pc = "finally"
  /\ last.ev \in {"finish", "mutateFail"} =>
       /\ \A t \in tasks : t.id # last.id
       /\ last.kind = "add" => ~adding
       /\ last.kind = "delete" => ~deleting
       /\ last.kind = "role" => ~changingRole

\* The flags are still up while the reloads after a delete and after a role
\* change are awaited.
C19_Witness ==
  /\ deleting /\ changingRole
  /\ \E t \in LoadsInFlight : t.kind = "delete"
  /\ \E t \in LoadsInFlight : t.kind = "role"

\* What the effect of AuthCallbackPage records in last.
AuthEvents == {"authStored", "authError"}

\* C21 as stated: the token is stored and '/' is navigated to if and only if
\* a token parameter is present and no error parameter is; a present error
\* parameter becomes the error state and keeps the token from being stored;
\* with neither present the error state is 'No token received'.
C21_StoredIffTokenPresent ==
  (screen = "authCallback" /\ last.ev \in AuthEvents) =>
    /\ (storedToken # Null /\ location = "/")
         <=> (tokenParam # Null /\ errorParam = Null)
    /\ errorParam # Null => error = errorParam /\ storedToken = Null
    /\ (tokenParam = Null /\ errorParam = Null) =>
         error = "No token received" /\ location = "/auth/callback"

\* C21: the token is stored and '/' is navigated to if and only if the token
\* parameter is a non-empty string and the error parameter is absent or
\* empty; a non-empty error parameter becomes the error state and the token
\* is not stored whatever the token parameter is; otherwise, with the token
\* parameter absent or empty, the error state is 'No token received' and
\* there is no navigation.  Before the effect nothing is stored, and after
\* it only the link of the error view changes the location.
C21_StoredIffTokenNonEmpty ==
  screen = "authCallback" =>
    /\ ~effectRan =>
         storedToken = Null /\ error = Null /\ location = "/auth/callback"
    /\ effectRan /\ last.ev \notin AuthEvents =>
         last.ev = "navigate" /\ location = "/login" /\ storedToken = Null
    /\ last.ev \in AuthEvents =>
         /\ (storedToken # Null /\ location = "/")
              <=> (tokenParam \notin {Null, ""} /\ errorParam \in {Null, ""})
         /\ storedToken # Null => storedToken = tokenParam /\ error = Null
         /\ storedToken = Null => location = "/auth/callback"
         /\ errorParam \notin {Null, ""} =>
              error = errorParam /\ storedToken = Null
         /\ (tokenParam \in {Null, ""} /\ errorParam \in {Null, ""}) =>
              error = "No token received" /\ storedToken = Null

\* The callback came with a token and an empty error parameter, and the
\* token was stored.
C21_Witness ==
  /\ screen = "authCallback"
  /\ effectRan
  /\ errorParam = ""
  /\ tokenParam = "abc"
  /\ storedToken = "abc"
  /\ location = "/"

\* C22: on the Users pages a delete request is only ever sent for a user
\* whose is_admin is false in the list the page holds at the moment the
\* request is sent.
C22_NeverDeletesAdmin ==
  [][ (last'.ev = "deleteIssued" /\ screen \in UserScreens) =>
        \A k \in 1..Len(items) :
          items[k].id = deleteTarget.id => ~items[k].is_admin ]_vars

\* C23: every role-change request the Users page sends has a target other
\* than the logged-in user, and whenever the page holds a non-empty list it
\* also holds the current user, so the self-check is never made against null.
C23_NeverChangesOwnRole ==
  [][ screen = "usersRoles" =>
        /\ last'.ev = "roleIssued" =>
             /\ currentUser # NoEntry
             /\ roleChangeTarget.id # currentUser.id
             /\ \A t \in tasks' \ tasks :
                  t.kind = "role" /\ t.arg[1] # currentUser.id
        /\ items' # <<>> => currentUser' # NoEntry ]_vars

\* A role change for another user is in flight.
C23_Witness ==
  /\ screen = "usersRoles"
  /\ last.ev = "roleIssued"
  /\ currentUser # NoEntry
  /\ \E t \in MutationsInFlight :
       t.kind = "role" /\ t.arg[1] # currentUser.id

\* The inputs a mutation is triggered from.
MutationInputs ==
  <<newGithubId, pattern, replacement, newPattern, newReplacement,
    deleteTarget, roleChangeTarget>>

\* C24: the step that follows a successful mutation call empties the add
\* form's fields (add) or sets the selected target to null (delete, role
\* change) and starts the reload in the same step; the step that follows a
\* failed mutation call leaves every field and target as it was; and no
\* other step than these and the user's own editing changes them.
C24_InputResetOnSuccessOnly ==
  [][ /\ last'.ev = "mutateOk" =>
           /\ last'.kind = "add" =>
                \A k \in 1..Len(AddFields') : AddFields'[k] = <<>>
           /\ last'.kind = "delete" => deleteTarget' = NoEntry
           /\ last'.kind = "role" => roleChangeTarget' = NoEntry
           /\ \E t \in tasks' : t.id = last'.id /\ t.pc = "load"
      /\ last'.ev = "mutateFail" => MutationInputs' = MutationInputs
      /\ MutationInputs' # MutationInputs => last'.ev \in {"ui", "mutateOk"}
    ]_vars

\* A delete succeeded: the dialog's target is null while the reload is
\* awaited.
C24_Witness ==
  /\ last.ev = "mutateOk"
  /\ last.kind = "delete"
  /\ deleteTarget = NoEntry
  /\ \E t \in LoadsInFlight : t.kind = "delete"

\* C25: on the admin list pages error goes from a message back to null only
\* in the step that completes a successful load(); triggering a mutation, a
\* mutation call that succeeded and a failed load or mutation leave a
\* message in error (a failure may replace it by its own).
C25_ErrorClearedOnlyByLoad ==
  [][ (screen \in WebScreens) =>
        /\ (error # Null /\ error' = Null) => last'.ev = "loadOk"
        /\ last'.ev \in {"ui", "addReturn", "addIssued", "deleteIssued",
                         "roleIssued", "mutateOk", "server"} =>
             error' = error
        /\ last'.ev \in {"mutateFail", "loadFail"} => error' # Null
        /\ last'.ev = "loadOk" => error' = Null
    ]_vars

\* After a failed load left its message, a mutation call has succeeded and
\* the message is still there.
C25_Witness ==
  /\ screen \in WebScreens
  /\ last.ev = "mutateOk"
  /\ error # Null

\* C26: with authToken nil the native dictionary panel never issues a
\* service call: loadEntries returns at its token guard and changes nothing,
\* the login-required view is shown, and the add form and the delete alert,
\* the only callers of addEntry and deleteEntry, are never on screen.
C26_NoCallWithoutToken ==
  [][ screen = "native" =>
        /\ tasks' = {} /\ nextId' = nextId /\ nextLoad' = nextLoad
        /\ last'.ev = "mount"
        /\ <<uiVars, srvVars, auxVars>>' = <<uiVars, srvVars, auxVars>>
        /\ NotAuthenticatedViewShown' /\ ~AddFormShown'
        /\ ~AddButtonEnabled' /\ ~DeleteAlertOpenable'
    ]_vars

\* The panel has appeared and loadEntries has run: nothing is in flight and
\* the login-required view is shown.
C26_Witness ==
  /\ screen = "native"
  /\ effectRan
  /\ last.ev = "mount"
  /\ tasks = {}
  /\ NotAuthenticatedViewShown
  /\ ~AddButtonEnabled

\* C27: in the general settings tab isTestingConnection = true implies
\* connectionStatus = testing in every reachable state, and the step that
\* completes a test leaves isTestingConnection false and connectionStatus
\* connected or failed.
C27_TestingImpliesStatusTesting ==
  [][ /\ isTestingConnection' => connectionStatus'.kind = "testing"
      /\ last'.ev = "testDone" =>
           /\ ~isTestingConnection'
           /\ connectionStatus'.kind \in {"connected", "failed"} ]_vars

\* C28: the dashboard calls getStatus exactly once, from its mount effect;
\* the step that completes the call leaves loading false and exactly one of
\* status and error non-null (status after success, error after failure);
\* and from then on neither changes and nothing more is called.
C28_StatusFetchedOnce ==
  [][ screen = "dashboard" =>
        /\ {t.id : t \in tasks'} \ {t.id : t \in tasks} # {} =>
             /\ last'.ev = "mount" /\ ~effectRan /\ tasks = {}
             /\ \A t \in tasks' : t.kind = "status"
        /\ last'.ev = "statusOk" =>
             /\ ~loading'
             /\ status' = last'.data[1] /\ status' # NoStatus
             /\ error' = Null
        /\ last'.ev = "statusFail" =>
             /\ ~loading'
             /\ error' # Null
             /\ status' = NoStatus
        /\ (status' # status \/ error' # error \/ loading' # loading) =>
             /\ last'.ev \in {"statusOk", "statusFail"}
             /\ status = NoStatus /\ error = Null /\ loading
        /\ ~(effectRan /\ tasks = {})
    ]_vars

\* The only getStatus call has failed.
C28_Witness ==
  /\ screen = "dashboard"
  /\ last.ev = "statusFail"
  /\ effectRan /\ tasks = {}
  /\ ~loading
  /\ error # Null /\ status = NoStatus

====
